---- MODULE Spec2Model ----
(***************************************************************************)
(* Adaptive Assessment Engine of the learning platform (backend/app.py):   *)
(* assignment documents, MCQ quizzes, free-text grading, reports and their *)
(* resolution.  Every HTTP handler is a sequence of steps, one step per    *)
(* database call of the handler (find_one, update_one, insert_one,         *)
(* count_documents, delete_one): the local computation between two calls   *)
(* belongs to the step of the call that follows it.  Requests are served   *)
(* by threads (Flask's app.run), so steps of different requests interleave.*)
(*                                                                         *)
(* Numbers: scores are integers; a rating is an exact rational [n, d] in   *)
(* lowest terms (the rounding of Python's binary floats is not modelled).  *)
(* An optional value (Python None) is the empty sequence, a set value v is *)
(* the one-element sequence <<v>>.                                         *)
(***************************************************************************)
EXTENDS Integers, Sequences, FiniteSets, Bags, TLC

\* ------------------------------------------------------------------ bounds
MaxAssignments == 3     \* assignment documents ever inserted
MaxReports == 2         \* report documents ever inserted
MaxClock == 4           \* values datetime.utcnow() takes in stored timestamps
MaxQuestions == 2    \* questions the oracle returns for one quiz (model bound)
MaxEvents == 7       \* stored game score events (model bound)

Workers == {"w1", "w2"} \* request threads
Emails == {"s1", "s2"}  \* session['email'] of the logged-in users
Courses == {"c1"}       \* course titles

\* --------------------------------------------------------- optional values
None == <<>>
Some(v) == <<v>>
IsNone(o) == o = <<>>
Val(o) == o[1]

\* ------------------------------------------------------- rational numbers
Abs(x) == IF x < 0 THEN -x ELSE x

RECURSIVE Gcd(_, _)
Gcd(a, b) == IF b = 0 THEN a ELSE Gcd(b, a % b)

\* float('nan'): every comparison with it is false (see RatLess)
NaN == [n |-> 0, d |-> 0]

\* n/d in lowest terms, d > 0; NaN when d = 0
Rat(n, d) ==
    IF d = 0 THEN NaN
    ELSE LET g == Gcd(Abs(n), Abs(d))
             s == IF d < 0 THEN -1 ELSE 1
         IN  [n |-> (s * n) \div g, d |-> (s * d) \div g]

RatLess(p, q) == p.n * q.d < q.n * p.d
RatLeq(p, q) == p.d # 0 /\ q.d # 0 /\ p.n * q.d <= q.n * p.d

\* "if rating < 0: rating = 0.0 / if rating > 5: rating = 5.0"
ClampRating(r) ==
    IF RatLess(r, Rat(0, 1)) THEN Rat(0, 1)
    ELSE IF RatLess(Rat(5, 1), r) THEN Rat(5, 1)
    ELSE r

\* the fraction of correct answers, not scaled to 0..5
QuizRatingUnscaled(score, num_questions) ==
    IF num_questions > 0 THEN ClampRating(Rat(score, num_questions)) ELSE Rat(0, 1)

\* rating = (score / float(num_questions)) * 5.0, 0.0 when there is no question
QuizRating(score, num_questions) ==
    IF num_questions > 0 THEN ClampRating(Rat(5 * score, num_questions)) ELSE Rat(0, 1)

\* ------------------------------------------------------ sequence helpers
RECURSIVE CountTrue(_)
CountTrue(bs) == IF bs = <<>> THEN 0
                 ELSE (IF Head(bs) THEN 1 ELSE 0) + CountTrue(Tail(bs))

\* all sequences over S of length 0..n
SeqsUpTo(S, n) == UNION {[1..k -> S] : k \in 0..n}

\* ------------------------------------------------- Python int() of a JSON value
\* A JSON value of a request is [t, v]: t its type, v the integer it carries
\* ("int": v, "numstr": the decimal string of v, "float": a float with a
\* fraction whose integer part is v, "str": a non-numeric string, "null",
\* "list", "inf": the float Infinity, which json.loads accepts).
JInt(v) == [t |-> "int", v |-> v]
JNumStr(v) == [t |-> "numstr", v |-> v]
JFloat(v) == [t |-> "float", v |-> v]
JStr == [t |-> "str", v |-> 0]
JNull == [t |-> "null", v |-> 0]
JList == [t |-> "list", v |-> 0]
JInf == [t |-> "inf", v |-> 0]
\* the float NaN, which json.loads accepts, or the string "nan"
JNaN == [t |-> "nan", v |-> 0]

\* int(x): the integer, or the exception int() raises
PyInt(x) ==
    CASE x.t \in {"int", "numstr", "float"} -> [exc |-> "", v |-> x.v]
      [] x.t = "str" -> [exc |-> "ValueError", v |-> 0]
      [] x.t \in {"null", "list"} -> [exc |-> "TypeError", v |-> 0]
      [] x.t = "inf" -> [exc |-> "OverflowError", v |-> 0]
      [] x.t = "nan" -> [exc |-> "ValueError", v |-> 0]

\* float(x): the number, or the exception float() raises
PyFloat(x) ==
    CASE x.t \in {"int", "numstr"} -> [exc |-> "", v |-> Rat(x.v, 1)]
      [] x.t = "nan" -> [exc |-> "", v |-> NaN]
      [] x.t = "str" -> [exc |-> "ValueError", v |-> NaN]
      [] x.t \in {"null", "list"} -> [exc |-> "TypeError", v |-> NaN]

\* ----------------------------------------------------------- MCQ scoring
\* A stored question is [nopts, correct_index] (its text and option strings
\* are not modelled); indices are 0-based as in the code.

\* user_answer of question idx (1-based here): None when the entry is missing
\* or int() raised TypeError/ValueError
UserAnswer(answers, idx) ==
    IF idx <= Len(answers) /\ PyInt(answers[idx]).exc = ""
    THEN Some(PyInt(answers[idx]).v)
    ELSE None

\* int() raised something the loop does not catch: the handler's outer
\* "except Exception" answers 500 and nothing is written
ScoringRaises(questions, answers) ==
    \E idx \in 1..Len(questions) :
        idx <= Len(answers) /\ PyInt(answers[idx]).exc = "OverflowError"

IsCorrect(ua, correct_index) == ~IsNone(ua) /\ Val(ua) = correct_index

\* detailed_results
ScoreQuiz(questions, answers) ==
    [idx \in 1..Len(questions) |->
        [correct_index |-> questions[idx].correct_index,
         user_answer |-> UserAnswer(answers, idx),
         is_correct |-> IsCorrect(UserAnswer(answers, idx), questions[idx].correct_index)]]

\* sum(1 for r in results if r.get('is_correct'))
CorrectCount(results) == CountTrue([i \in 1..Len(results) |-> results[i].is_correct])

\* ------------------------------------------------------- quiz generation
QuizSize == 10          \* "if len(cleaned_questions) == 10: break"
MaxOptions == 4         \* "opts = opts[:4]"

Min(a, b) == IF a < b THEN a ELSE b

\* A question of the oracle's JSON is [text_ok, nopts, ci]: whether its text
\* is non-empty after strip(), how many options it lists, and the JSON value
\* of its correct_index.
\* the index kept as the oracle gave it, not checked against the options
CleanIndexUnchecked(ci, nopts) == IF PyInt(ci).exc = "" THEN PyInt(ci).v ELSE 0

\* "correct_index = int(correct_index)", 0 when int() raised TypeError or
\* ValueError, 0 when it is out of the range of the truncated options
CleanIndex(ci, nopts) ==
    LET i == IF PyInt(ci).exc = "" THEN PyInt(ci).v ELSE 0
    IN  IF i < 0 \/ i >= nopts THEN 0 ELSE i

\* every question kept, whatever its text and options
CleanQuestionsKeepAll(raw, cleaned) ==
    [i \in 1..Min(Len(raw), QuizSize) |->
        [nopts |-> Min(raw[i].nopts, MaxOptions),
         correct_index |-> CleanIndex(raw[i].ci, Min(raw[i].nopts, MaxOptions))]]

\* cleaned_questions: a question with no text or fewer than 2 options is
\* skipped, the options are cut to 4, the loop stops at 10 questions
RECURSIVE CleanQuestions(_, _)
CleanQuestions(raw, cleaned) ==
    IF raw = <<>> \/ Len(cleaned) = QuizSize THEN cleaned
    ELSE LET q == Head(raw)
         IN  IF ~q.text_ok \/ q.nopts < 2
             THEN CleanQuestions(Tail(raw), cleaned)
             ELSE CleanQuestions(Tail(raw),
                    Append(cleaned,
                           [nopts |-> Min(q.nopts, MaxOptions),
                            correct_index |-> CleanIndex(q.ci, Min(q.nopts, MaxOptions))]))

\* int(correct_index) raises OverflowError, which the loop does not catch
CleaningRaises(raw) ==
    \E i \in 1..Len(raw) :
        raw[i].text_ok /\ raw[i].nopts >= 2 /\ PyInt(raw[i].ci).exc = "OverflowError"

\* ------------------------------------------------------------- documents
TextType == "text"      \* documents of api_add_assignment carry no assignment_type
QuizType == "quiz_mcq"

\* assignment_doc of api_start_quiz_assignment
QuizDoc(course, email, level, questions) ==
    [assignment_type |-> QuizType, course |-> course,
     instructor_email |-> "", student_email |-> email,
     status |-> "pending", points |-> Len(questions),
     difficulty_level |-> level, question_set |-> questions,
     score |-> None, rating |-> None, completed_at |-> None,
     student_answer |-> None, results |-> <<>>]

\* assignment_data of api_add_assignment
TextDoc(course, instructor, student, status, points) ==
    [assignment_type |-> TextType, course |-> course,
     instructor_email |-> instructor, student_email |-> student,
     status |-> status, points |-> points,
     difficulty_level |-> 1, question_set |-> <<>>,
     score |-> None, rating |-> None, completed_at |-> None,
     student_answer |-> None, results |-> <<>>]

\* ------------------------------------------------------------------ state
VARIABLES
    assignments,   \* assignments_collection: id -> document
    nextId,        \* next fresh assignment id
    reports,       \* reports_collection: id -> document
    nextReport,    \* next fresh report id
    now,           \* datetime.utcnow()
    ollama,        \* OLLAMA_AVAILABLE, fixed when the module is imported
    courseRating,  \* courses_collection: title -> rating
    pc,            \* per request thread: the handler step it is at
    local,         \* per request thread: the handler's local variables
    resp,          \* per request thread: the response of its last request
    body,          \* per request thread: the data that response carried
    gameScores     \* game_scores_collection: the bag of score events

vars == <<assignments, nextId, reports, nextReport, now, ollama, courseRating, pc, local, resp,
          body, gameScores>>

Idle == [op |-> "idle"]

\* a response that carries no data that is modelled
NoBody == [kind |-> "none"]

Init ==
    /\ assignments = <<>>
    /\ nextId = 1
    /\ reports = <<>>
    /\ nextReport = 1
    /\ now = 1
    /\ ollama \in BOOLEAN
    /\ courseRating = [c \in Courses |-> None]
    /\ pc = [w \in Workers |-> "idle"]
    /\ local = [w \in Workers |-> Idle]
    /\ resp = [w \in Workers |-> "none"]
    /\ body = [w \in Workers |-> NoBody]
    /\ gameScores = EmptyBag

Ids == DOMAIN assignments
ReportIds == DOMAIN reports

\* update_one({"_id": a}, {"$set": fields}): no document, no change
SetFields(coll, a, fields) ==
    IF a \in DOMAIN coll
    THEN [coll EXCEPT ![a] = [f \in DOMAIN coll[a] |->
                                 IF f \in DOMAIN fields THEN fields[f] ELSE coll[a][f]]]
    ELSE coll

\* insert_one
Insert(coll, id, doc) == [i \in DOMAIN coll \cup {id} |-> IF i = id THEN doc ELSE coll[i]]

\* delete_one
Delete(coll, id) == [i \in DOMAIN coll \ {id} |-> coll[i]]

\* the request ends: the thread answers and is free again
Finish(w, response) ==
    /\ pc' = [pc EXCEPT ![w] = "idle"]
    /\ local' = [local EXCEPT ![w] = Idle]
    /\ resp' = [resp EXCEPT ![w] = response]
    /\ body' = [body EXCEPT ![w] = NoBody]

\* the request ends with a response that carries data
FinishWith(w, response, data) ==
    /\ pc' = [pc EXCEPT ![w] = "idle"]
    /\ local' = [local EXCEPT ![w] = Idle]
    /\ resp' = [resp EXCEPT ![w] = response]
    /\ body' = [body EXCEPT ![w] = data]

Goto(w, step, loc) ==
    /\ pc' = [pc EXCEPT ![w] = step]
    /\ local' = [local EXCEPT ![w] = loc]
    /\ resp' = [resp EXCEPT ![w] = "none"]
    /\ body' = [body EXCEPT ![w] = NoBody]

\* ------------------------------------------- api_start_quiz_assignment
\* the count without the status filter
CompletedQuizCountAnyStatus(email, course) ==
    Cardinality({a \in Ids : /\ assignments[a].course = course
                             /\ assignments[a].student_email = email
                             /\ assignments[a].assignment_type = QuizType})

\* count_documents({course, student_email, assignment_type, status})
CompletedQuizCount(email, course) ==
    Cardinality({a \in Ids : /\ assignments[a].course = course
                             /\ assignments[a].student_email = email
                             /\ assignments[a].assignment_type = QuizType
                             /\ assignments[a].status = "completed"})

\* "level = int(completed_count) + 1"
QuizLevel(email, course) == CompletedQuizCount(email, course) + 1

\* up to the count of the completed quizzes
StartQuizCount(w, email, course) ==
    /\ pc[w] = "idle"
    /\ IF ~ollama
       THEN Finish(w, "ollama_unavailable")
       ELSE Goto(w, "start_insert",
                 [op |-> "start_quiz", email |-> email, course |-> course,
                  level |-> QuizLevel(email, course)])
    /\ UNCHANGED <<assignments, nextId, reports, nextReport, now, ollama, gameScores, courseRating>>

\* public_questions: index, question and options of each question
PublicQuestions(questions) ==
    [i \in 1..Len(questions) |-> [index |-> i - 1, nopts |-> questions[i].nopts]]

\* ollama.chat, the parse and the cleaning of its answer, insert_one.
\* out is the oracle's outcome: [kind, questions] with kind "raise" (the call
\* failed), "nonjson" (no JSON is recovered) or "json".
StartQuizInsert(w, out) ==
    /\ pc[w] = "start_insert"
    /\ IF out.kind # "json"
       THEN /\ Finish(w, "generation_failed")
            /\ UNCHANGED <<assignments, nextId>>
       ELSE IF CleaningRaises(out.questions)
       THEN /\ Finish(w, "error")
            /\ UNCHANGED <<assignments, nextId>>
       ELSE IF CleanQuestions(out.questions, <<>>) = <<>>
       THEN /\ Finish(w, "generation_failed")
            /\ UNCHANGED <<assignments, nextId>>
       ELSE /\ nextId <= MaxAssignments
            /\ assignments' = Insert(assignments, nextId,
                                QuizDoc(local[w].course, local[w].email, local[w].level,
                                        CleanQuestions(out.questions, <<>>)))
            /\ nextId' = nextId + 1
            /\ FinishWith(w, "quiz_started",
                          [kind |-> "quiz", aid |-> nextId,
                           questions |-> PublicQuestions(CleanQuestions(out.questions, <<>>))])
    /\ UNCHANGED <<reports, nextReport, now, ollama, gameScores, courseRating>>

\* --------------------------------------------- api_get_quiz_assignment
GetQuiz(w, a) ==
    /\ pc[w] = "idle"
    /\ IF a \notin Ids
       THEN Finish(w, "not_found")
       ELSE IF assignments[a].assignment_type # QuizType
       THEN Finish(w, "not_quiz")
       ELSE FinishWith(w, "quiz",
                       [kind |-> "quiz", aid |-> a,
                        questions |-> PublicQuestions(assignments[a].question_set)])
    /\ UNCHANGED <<assignments, nextId, reports, nextReport, now, ollama, gameScores, courseRating>>

\* ------------------------------------------- api_get_assignment_detail
\* _build_quiz_mcq_detail: the results when there are any, else the questions
QuizDetail(doc) ==
    IF doc.results # <<>>
    THEN [i \in 1..Len(doc.results) |->
             [correct_index |-> doc.results[i].correct_index,
              user_answer |-> doc.results[i].user_answer,
              is_correct |-> Some(doc.results[i].is_correct)]]
    ELSE [i \in 1..Len(doc.question_set) |->
             [correct_index |-> doc.question_set[i].correct_index,
              user_answer |-> None,
              is_correct |-> None]]

\* get_assignment_detail: the base fields, the questions of a quiz
AssignmentDetail(a) ==
    [kind |-> "detail", aid |-> a, status |-> assignments[a].status,
     score |-> assignments[a].score, rating |-> assignments[a].rating,
     questions |-> IF assignments[a].assignment_type = QuizType
                   THEN QuizDetail(assignments[a]) ELSE <<>>]

\* find_one and "Only admin or the owner student can view"
DetailRead(w, email, is_admin, a) ==
    /\ pc[w] = "idle"
    /\ IF a \notin Ids
       THEN Finish(w, "not_found")
       ELSE IF ~is_admin /\ assignments[a].student_email # email
       THEN Finish(w, "unauthorized")
       ELSE Goto(w, "detail_build", [op |-> "detail", aid |-> a])
    /\ UNCHANGED <<assignments, nextId, reports, nextReport, now, ollama, gameScores, courseRating>>

\* get_assignment_detail: its own find_one, then the detail
DetailBuild(w) ==
    /\ pc[w] = "detail_build"
    /\ IF local[w].aid \notin Ids
       THEN Finish(w, "not_found")
       ELSE FinishWith(w, "detail", AssignmentDetail(local[w].aid))
    /\ UNCHANGED <<assignments, nextId, reports, nextReport, now, ollama, gameScores, courseRating>>

\* ---------------------------------------------------- api_get_assignments
\* "status" filter of the query, or none; every stored field is returned
ListAssignments(w, status) ==
    /\ pc[w] = "idle"
    /\ FinishWith(w, "list",
                  [kind |-> "list",
                   docs |-> [a \in {i \in Ids : IsNone(status)
                                                  \/ assignments[i].status = Val(status)}
                             |-> assignments[a]]])
    /\ UNCHANGED <<assignments, nextId, reports, nextReport, now, ollama, gameScores, courseRating>>

\* ------------------------------------------ api_submit_quiz_assignment
\* up to find_one and the checks of the document found
SubmitQuizRead(w, a, answers) ==
    /\ pc[w] = "idle"
    /\ IF a \notin Ids
       THEN Finish(w, "not_found")
       ELSE IF assignments[a].assignment_type # QuizType
       THEN Finish(w, "not_quiz")
       ELSE IF assignments[a].question_set = <<>>
       THEN Finish(w, "no_questions")
       ELSE Goto(w, "quiz_write",
                 [op |-> "submit_quiz", aid |-> a, doc |-> assignments[a],
                  answers |-> answers])
    /\ UNCHANGED <<assignments, nextId, reports, nextReport, now, ollama, gameScores, courseRating>>

\* an explanation asked of the oracle for every result
ExplanationAlwaysAsked(r, failed) == IF failed THEN "generic" ELSE "oracle"

\* r["explanation"] of a result: "confirmation" is the fixed "Your answer is
\* correct.", "oracle" the text ollama.chat returned, "generic" the fixed text
\* used when that call raised, "unavailable" the fixed text used for an
\* incorrect result when OLLAMA_AVAILABLE is false.  ollama.chat is called
\* exactly for the results explained by "oracle" or "generic".
Explanation(r, failed) ==
    IF ollama
    THEN IF ~r.is_correct /\ ~IsNone(r.user_answer) /\ Val(r.user_answer) >= 0
         THEN (IF failed THEN "generic" ELSE "oracle")
         ELSE "confirmation"
    ELSE IF r.is_correct THEN "confirmation" ELSE "unavailable"

\* detailed_results after the explanation loop; fails: the results (1-based)
\* for which a call of the oracle would raise
Explained(results, fails) ==
    [i \in 1..Len(results) |->
        [correct_index |-> results[i].correct_index,
         user_answer |-> results[i].user_answer,
         is_correct |-> results[i].is_correct,
         explanation |-> Explanation(results[i], i \in fails)]]

\* update_doc of the quiz submission
QuizUpdateDoc(questions, answers, fails, at) ==
    LET results == Explained(ScoreQuiz(questions, answers), fails)
        score == CorrectCount(results)
    IN  [score |-> Some(score),
         rating |-> Some(QuizRating(score, Len(questions))),
         status |-> "completed",
         completed_at |-> Some(at),
         results |-> results]

\* the scoring loop, the explanation loop, then update_one with update_doc
SubmitQuizWrite(w, fails) ==
    /\ pc[w] = "quiz_write"
    /\ IF ScoringRaises(local[w].doc.question_set, local[w].answers)
       THEN /\ Finish(w, "error")
            /\ UNCHANGED <<assignments, now>>
       ELSE /\ now < MaxClock
            /\ assignments' = SetFields(assignments, local[w].aid,
                                QuizUpdateDoc(local[w].doc.question_set, local[w].answers,
                                              fails, now))
            /\ now' = now + 1
            /\ Finish(w, "quiz_submitted")
    /\ UNCHANGED <<nextId, reports, nextReport, ollama, gameScores, courseRating>>

\* ---------------------------------------------- admin_delete_assignment
AdminDeleteAssignment(w, a) ==
    /\ pc[w] = "idle"
    /\ assignments' = Delete(assignments, a)
    /\ Finish(w, "deleted")
    /\ UNCHANGED <<nextId, reports, nextReport, now, ollama, gameScores, courseRating>>

\* ---------------------------------------------------- api_add_assignment
\* insert_one of a free-text assignment: the session's user is its instructor;
\* student_email, status and points come from the request
AddAssignment(w, email, course, student, status, points) ==
    /\ pc[w] = "idle"
    /\ nextId <= MaxAssignments
    /\ assignments' = Insert(assignments, nextId,
                             TextDoc(course, email, student, status, points))
    /\ nextId' = nextId + 1
    /\ Finish(w, "added")
    /\ UNCHANGED <<reports, nextReport, now, ollama, gameScores, courseRating>>

\* ------------------------------------------------- api_update_assignment
\* data holds the optional fields of the request that are modelled
UpdateData(data) ==
    [f \in {g \in {"status", "points", "course"} : ~IsNone(data[g])} |-> Val(data[f])]

\* find_one, the instructor check (instructor_email is never rewritten), update_one
UpdateAssignment(w, email, a, data) ==
    /\ pc[w] = "idle"
    /\ IF a \notin Ids
       THEN /\ Finish(w, "not_found")
            /\ UNCHANGED assignments
       ELSE IF assignments[a].instructor_email # email
       THEN /\ Finish(w, "unauthorized")
            /\ UNCHANGED assignments
       ELSE /\ assignments' = SetFields(assignments, a, UpdateData(data))
            /\ Finish(w, "updated")
    /\ UNCHANGED <<nextId, reports, nextReport, now, ollama, gameScores, courseRating>>

\* ------------------------------------------------- api_delete_assignment
DeleteAssignment(w, email, a) ==
    /\ pc[w] = "idle"
    /\ IF a \notin Ids
       THEN /\ Finish(w, "not_found")
            /\ UNCHANGED assignments
       ELSE IF assignments[a].instructor_email # email
       THEN /\ Finish(w, "unauthorized")
            /\ UNCHANGED assignments
       ELSE /\ assignments' = Delete(assignments, a)
            /\ Finish(w, "deleted")
    /\ UNCHANGED <<nextId, reports, nextReport, now, ollama, gameScores, courseRating>>

\* ------------------------------------------------------- form fields
\* request.form.get(name) is [t, v]: "absent" (None), "empty" (''), "num" (the
\* decimal text of the integer v) or "text" (text float() rejects)
FAbsent == [t |-> "absent", v |-> 0]
FEmpty == [t |-> "empty", v |-> 0]
FNum(v) == [t |-> "num", v |-> v]
FText == [t |-> "text", v |-> 0]

\* the field is given and float() accepts it
Parses(raw) == raw.t = "num"

\* the score / rating entries of updates and of manual_updates
Marks(score_raw, rating_raw) ==
    [f \in {g \in {"score", "rating"} :
                IF g = "score" THEN Parses(score_raw) ELSE Parses(rating_raw)} |->
        IF f = "score" THEN Some(score_raw.v) ELSE Some(Rat(rating_raw.v, 1))]

\* ----------------------------------------- admin_update_assignment_marks
AdminUpdateMarks(w, a, score_raw, rating_raw) ==
    /\ pc[w] = "idle"
    /\ IF DOMAIN Marks(score_raw, rating_raw) # {}
       THEN /\ assignments' = SetFields(assignments, a, Marks(score_raw, rating_raw))
            /\ Finish(w, "marks_updated")
       ELSE /\ UNCHANGED assignments
            /\ Finish(w, "no_marks")
    /\ UNCHANGED <<nextId, reports, nextReport, now, ollama, gameScores, courseRating>>

\* ---------------------------------------------- recompute from results
\* new_score = float(correct_count); new_rating = (new_score / num_questions) * 5.0
RecomputedFields(results) ==
    [score |-> Some(CorrectCount(results)),
     rating |-> Some(ClampRating(Rat(5 * CorrectCount(results),
                                     IF Len(results) = 0 THEN 1 ELSE Len(results)))),
     results |-> results]

\* ------------------------------------------- admin_review_assignment (POST)
\* checked: the 0-based indices idx whose checkbox q_correct_<idx> is in the form
ReviewedResults(results, checked) ==
    [i \in 1..Len(results) |-> [results[i] EXCEPT !.is_correct = (i - 1) \in checked]]

ReviewRead(w, a, checked) ==
    /\ pc[w] = "idle"
    /\ IF a \notin Ids
       THEN Finish(w, "not_found")
       ELSE IF assignments[a].assignment_type # QuizType \/ assignments[a].results = <<>>
       THEN Finish(w, "review_nothing")
       ELSE Goto(w, "review_write",
                 [op |-> "review", aid |-> a, doc |-> assignments[a], checked |-> checked])
    /\ UNCHANGED <<assignments, nextId, reports, nextReport, now, ollama, gameScores, courseRating>>

ReviewWrite(w) ==
    /\ pc[w] = "review_write"
    /\ assignments' = SetFields(assignments, local[w].aid,
                        RecomputedFields(ReviewedResults(local[w].doc.results,
                                                         local[w].checked)))
    /\ Finish(w, "reviewed")
    /\ UNCHANGED <<nextId, reports, nextReport, now, ollama, gameScores, courseRating>>

\* ------------------------- api_report_assignment, api_report_assignment_question
\* report_doc of an assignment-level report (no question_index)
AssignmentReport(a) ==
    [type |-> "assignment", assignment_id |-> a, question_index |-> None,
     student_answer |-> None, is_correct |-> None,
     status |-> "open", resolved_at |-> None]

\* report_doc of a question report: the snapshot of results[question_index]
QuestionReport(a, k, results) ==
    [type |-> "question", assignment_id |-> a, question_index |-> Some(k),
     student_answer |-> IF k < Len(results) THEN results[k + 1].user_answer ELSE None,
     is_correct |-> IF k < Len(results) THEN Some(results[k + 1].is_correct) ELSE None,
     status |-> "open", resolved_at |-> None]

\* find_one, then insert_one of a document the find_one fixes
ReportAssignment(w, a) ==
    /\ pc[w] = "idle"
    /\ IF a \notin Ids
       THEN /\ Finish(w, "not_found")
            /\ UNCHANGED <<reports, nextReport>>
       ELSE /\ nextReport <= MaxReports
            /\ reports' = Insert(reports, nextReport, AssignmentReport(a))
            /\ nextReport' = nextReport + 1
            /\ Finish(w, "reported")
    /\ UNCHANGED <<assignments, nextId, now, ollama, gameScores, courseRating>>

ReportQuestion(w, a, k) ==
    /\ pc[w] = "idle"
    /\ IF a \notin Ids
       THEN /\ Finish(w, "not_found")
            /\ UNCHANGED <<reports, nextReport>>
       ELSE IF assignments[a].assignment_type # QuizType
       THEN /\ Finish(w, "not_quiz")
            /\ UNCHANGED <<reports, nextReport>>
       ELSE IF k < 0 \/ k >= Len(assignments[a].question_set)
       THEN /\ Finish(w, "index_out_of_range")
            /\ UNCHANGED <<reports, nextReport>>
       ELSE /\ nextReport <= MaxReports
            /\ reports' = Insert(reports, nextReport,
                                 QuestionReport(a, k, assignments[a].results))
            /\ nextReport' = nextReport + 1
            /\ Finish(w, "reported")
    /\ UNCHANGED <<assignments, nextId, now, ollama, gameScores, courseRating>>

\* ------------------------------------------------- admin_resolve_report
\* every result marked correct
GrantedResultsAll(results, k) ==
    [i \in 1..Len(results) |-> [results[i] EXCEPT !.is_correct = TRUE]]

\* the reported result switched between correct and incorrect
GrantedResultsToggled(results, k) ==
    [results EXCEPT ![k + 1].is_correct = ~results[k + 1].is_correct]

\* results[question_index]['is_correct'] = True
GrantedResults(results, k) == [results EXCEPT ![k + 1].is_correct = TRUE]

\* the automatic credit grant applies: a question report on an MCQ quiz whose
\* results hold the reported index
GrantApplies(report, doc) ==
    /\ report.type = "question"
    /\ doc.assignment_type = QuizType
    /\ ~IsNone(report.question_index)
    /\ 0 <= Val(report.question_index)
    /\ Val(report.question_index) < Len(doc.results)

\* the credit grant taking precedence over the manual values
ResolveFieldsGrantFirst(report, doc, score_raw, rating_raw) ==
    IF GrantApplies(report, doc)
    THEN RecomputedFields(GrantedResults(doc.results, Val(report.question_index)))
    ELSE Marks(score_raw, rating_raw)

\* the $set of the handler's update of the assignment; no field, no update
ResolveFields(report, doc, score_raw, rating_raw) ==
    IF DOMAIN Marks(score_raw, rating_raw) # {}
    THEN Marks(score_raw, rating_raw)
    ELSE IF GrantApplies(report, doc)
    THEN RecomputedFields(GrantedResults(doc.results, Val(report.question_index)))
    ELSE <<>>

\* find_one of the report, find_one of its assignment
ResolveRead(w, r, score_raw, rating_raw) ==
    /\ pc[w] = "idle"
    /\ IF r \notin ReportIds
       THEN Finish(w, "report_not_found")
       ELSE IF reports[r].assignment_id \notin Ids
       THEN Finish(w, "assignment_not_found")
       ELSE Goto(w,
                 IF DOMAIN ResolveFields(reports[r], assignments[reports[r].assignment_id],
                                         score_raw, rating_raw) = {}
                 THEN "resolve_mark" ELSE "resolve_update",
                 [op |-> "resolve", rid |-> r, aid |-> reports[r].assignment_id,
                  report |-> reports[r], doc |-> assignments[reports[r].assignment_id],
                  score_raw |-> score_raw, rating_raw |-> rating_raw])
    /\ UNCHANGED <<assignments, nextId, reports, nextReport, now, ollama, gameScores, courseRating>>

\* update_one of the assignment: the manual marks, else the credit grant
ResolveUpdate(w) ==
    /\ pc[w] = "resolve_update"
    /\ assignments' = SetFields(assignments, local[w].aid,
                        ResolveFields(local[w].report, local[w].doc,
                                      local[w].score_raw, local[w].rating_raw))
    /\ pc' = [pc EXCEPT ![w] = "resolve_mark"]
    /\ UNCHANGED <<nextId, reports, nextReport, now, ollama, gameScores, courseRating, local, resp, body>>

\* update_one of the assignment raises (the store fails): "except Exception"
\* answers 'Failed to resolve report.' and the report is not touched
ResolveUpdateFails(w) ==
    /\ pc[w] = "resolve_update"
    /\ Finish(w, "resolve_failed")
    /\ UNCHANGED <<assignments, nextId, reports, nextReport, now, ollama, gameScores, courseRating>>

\* the report resolved and its snapshot brought in line with the grant
ResolvedFieldsWithSnapshot(at) ==
    [status |-> "resolved", resolved_at |-> Some(at), is_correct |-> Some(TRUE)]

\* update_one of the report: status resolved, resolved_at utcnow()
ResolvedFields(at) == [status |-> "resolved", resolved_at |-> Some(at)]

ResolveMark(w) ==
    /\ pc[w] = "resolve_mark"
    /\ now < MaxClock
    /\ reports' = SetFields(reports, local[w].rid, ResolvedFields(now))
    /\ now' = now + 1
    /\ Finish(w, "resolved")
    /\ UNCHANGED <<assignments, nextId, nextReport, ollama, gameScores, courseRating>>

\* ------------------------------------------------- api_submit_assignment
AnswerThreshold == 20   \* "len(student_answer) > 20"
MaxRating == 5          \* "if rating > 5"
FallbackLowRating == 3  \* "5.0 if len(student_answer) > 20 else 3.0"
MaxDifficulty == 5      \* "if next_difficulty_level > 5"

JAbsent == [t |-> "absent", v |-> 0]

\* float(x) of the score of the oracle's JSON object, kept as an integer:
\* the exception raised, if any (scores with a fraction, infinite or NaN are
\* not drawn here)
PyNumber(x) ==
    CASE x.t \in {"int", "numstr"} -> [exc |-> "", v |-> x.v]
      [] x.t = "str" -> [exc |-> "ValueError", v |-> 0]
      [] x.t \in {"null", "list"} -> [exc |-> "TypeError", v |-> 0]

\* grading.get(key, default)
GradingGet(x, default) == IF x.t = "absent" THEN JInt(default) ELSE x

\* the grading dict: the oracle's JSON object, or the fallback when
\* json.loads raises JSONDecodeError.  out is [kind, score, rating, next].
Grading(out, max_points, answer_len, difficulty_level) ==
    IF out.kind = "nonjson"
    THEN [score |-> JInt(IF answer_len > AnswerThreshold THEN max_points
                         ELSE max_points \div 2),
          rating |-> JInt(IF answer_len > AnswerThreshold THEN MaxRating
                          ELSE FallbackLowRating),
          next |-> JInt(difficulty_level + 1)]
    ELSE [score |-> GradingGet(out.score, 0),
          rating |-> GradingGet(out.rating, 0),
          next |-> GradingGet(out.next, difficulty_level)]

\* float(...) or int(...) of a grading value raises: the outer "except
\* Exception" answers 500; so does a JSON value that is no object ("nodict")
GradingRaises(out, max_points, answer_len, difficulty_level) ==
    \/ out.kind = "nodict"
    \/ LET g == Grading(out, max_points, answer_len, difficulty_level)
       IN  \/ PyNumber(g.score).exc # ""
           \/ PyFloat(g.rating).exc # ""
           \/ PyInt(g.next).exc # ""

ClampScore(score, max_points) ==
    IF score < 0 THEN 0 ELSE IF score > max_points THEN max_points ELSE score

\* update_doc of the free-text submission
TextUpdateDoc(out, doc, answer_len, at) ==
    LET g == Grading(out, doc.points, answer_len, doc.difficulty_level)
    IN  [student_answer |-> Some(answer_len),
         score |-> Some(ClampScore(PyNumber(g.score).v, doc.points)),
         rating |-> Some(ClampRating(PyFloat(g.rating).v)),
         status |-> "completed",
         difficulty_level |-> doc.difficulty_level,
         completed_at |-> Some(at)]

\* "if next_difficulty_level < 1 ... if next_difficulty_level > 5"
ClampDifficulty(level) ==
    IF level < 1 THEN 1 ELSE IF level > MaxDifficulty THEN MaxDifficulty ELSE level

\* result of the response: score, max_points, rating, next_difficulty_level
TextResult(out, doc, answer_len) ==
    LET g == Grading(out, doc.points, answer_len, doc.difficulty_level)
    IN  [score |-> ClampScore(PyNumber(g.score).v, doc.points),
         max_points |-> doc.points,
         rating |-> ClampRating(PyFloat(g.rating).v),
         next_difficulty_level |-> ClampDifficulty(PyInt(g.next).v)]

\* up to find_one; the answer is modelled by its length after strip(); doc
\* is the handler's dict "assignment", found the document as find_one
\* returned it
SubmitTextRead(w, email, a, answer_len) ==
    /\ pc[w] = "idle"
    /\ IF ~ollama
       THEN Finish(w, "ollama_unavailable")
       ELSE IF answer_len = 0
       THEN Finish(w, "answer_required")
       ELSE IF a \notin Ids
       THEN Finish(w, "not_found")
       ELSE Goto(w, IF assignments[a].student_email = "" THEN "text_bind" ELSE "text_grade",
                 [op |-> "submit_text", aid |-> a, doc |-> assignments[a],
                  found |-> assignments[a], email |-> email, answer_len |-> answer_len])
    /\ UNCHANGED <<assignments, nextId, reports, nextReport, now, ollama, gameScores, courseRating>>

\* "Bind assignment to this student if not already set": update_one
SubmitTextBind(w) ==
    /\ pc[w] = "text_bind"
    /\ assignments' = SetFields(assignments, local[w].aid,
                                [student_email |-> local[w].email])
    /\ pc' = [pc EXCEPT ![w] = "text_grade"]
    /\ local' = [local EXCEPT ![w].doc.student_email = local[w].email]
    /\ UNCHANGED <<nextId, reports, nextReport, now, ollama, gameScores, courseRating, resp, body>>

\* ollama.chat, the parse of its answer, the clamps, update_one
SubmitTextGrade(w, out) ==
    /\ pc[w] = "text_grade"
    /\ IF out.kind = "raise"
       THEN /\ Finish(w, "grading_failed")
            /\ UNCHANGED <<assignments, now>>
       ELSE IF GradingRaises(out, local[w].doc.points, local[w].answer_len,
                             local[w].doc.difficulty_level)
       THEN /\ Finish(w, "error")
            /\ UNCHANGED <<assignments, now>>
       ELSE /\ now < MaxClock
            /\ assignments' = SetFields(assignments, local[w].aid,
                                TextUpdateDoc(out, local[w].doc, local[w].answer_len, now))
            /\ now' = now + 1
            /\ pc' = [pc EXCEPT ![w] = "text_aggregate"]
            /\ local' = [local EXCEPT ![w] =
                            [op |-> "submit_text", aid |-> local[w].aid,
                             doc |-> local[w].doc, email |-> local[w].email,
                             answer_len |-> local[w].answer_len, grading |-> out,
                             result |-> TextResult(out, local[w].doc, local[w].answer_len)]]
            /\ UNCHANGED <<resp, body>>
    /\ UNCHANGED <<nextId, reports, nextReport, ollama, gameScores, courseRating>>

\* the $match of the course pipeline: the course's documents with a rating
RatedOfCourse(course) ==
    {a \in Ids : assignments[a].course = course /\ ~IsNone(assignments[a].rating)}

RatAdd(p, q) == Rat(p.n * q.d + q.n * p.d, p.d * q.d)

RECURSIVE RatingSum(_)
RatingSum(S) ==
    IF S = {} THEN Rat(0, 1)
    ELSE LET a == CHOOSE x \in S : TRUE
         IN  RatAdd(Val(assignments[a].rating), RatingSum(S \ {a}))

\* {"$avg": "$rating"}
AvgRating(S) == Rat(RatingSum(S).n, RatingSum(S).d * Cardinality(S))

\* assignments_collection.aggregate(pipeline)
SubmitTextAggregate(w) ==
    /\ pc[w] = "text_aggregate"
    /\ IF RatedOfCourse(local[w].doc.course) = {}
       THEN Finish(w, "text_submitted")
       ELSE /\ pc' = [pc EXCEPT ![w] = "text_course"]
            /\ local' = [local EXCEPT ![w] =
                            [op |-> "submit_text", aid |-> local[w].aid,
                             course |-> local[w].doc.course,
                             result |-> local[w].result,
                             avg_rating |-> AvgRating(RatedOfCourse(local[w].doc.course))]]
            /\ UNCHANGED <<resp, body>>
    /\ UNCHANGED <<assignments, nextId, reports, nextReport, now, ollama, gameScores, courseRating>>

\* courses_collection.update_one({"title": course_title}, {"$set": {"rating": avg_rating}})
SubmitTextCourse(w) ==
    /\ pc[w] = "text_course"
    /\ courseRating' = [courseRating EXCEPT ![local[w].course] = Some(local[w].avg_rating)]
    /\ Finish(w, "text_submitted")
    /\ UNCHANGED <<assignments, nextId, reports, nextReport, now, ollama, gameScores>>

\* ------------------------------------------------------- request inputs
AssignmentArgs == 1..MaxAssignments
ReportArgs == 1..MaxReports
QuestionArgs == 0..(MaxQuestions - 1)

OracleFails ==
    {[kind |-> "raise", questions |-> <<>>], [kind |-> "nonjson", questions |-> <<>>]}

\* the oracle's quiz JSON: questions with two options, or with too few
RawQuestions ==
    {[text_ok |-> TRUE, nopts |-> 2, ci |-> JInt(0)],
     [text_ok |-> TRUE, nopts |-> 2, ci |-> JInt(1)],
     [text_ok |-> TRUE, nopts |-> 1, ci |-> JInt(0)]}

QuizOutcomes ==
    OracleFails \cup
    {[kind |-> "json", questions |-> qs] : qs \in SeqsUpTo(RawQuestions, MaxQuestions)}

\* questions of every kind the cleaning tells apart: no text, too few
\* options, more than 4 options, an index that is negative, out of range,
\* out of range once the options are cut, a fraction, no number, infinite
GenQuestions ==
    {[text_ok |-> FALSE, nopts |-> 2, ci |-> JInt(0)],
     [text_ok |-> TRUE, nopts |-> 1, ci |-> JInt(0)],
     [text_ok |-> TRUE, nopts |-> 2, ci |-> JInt(1)],
     [text_ok |-> TRUE, nopts |-> 2, ci |-> JInt(2)],
     [text_ok |-> TRUE, nopts |-> 3, ci |-> JInt(-1)],
     [text_ok |-> TRUE, nopts |-> 5, ci |-> JInt(4)],
     [text_ok |-> TRUE, nopts |-> 5, ci |-> JInt(3)],
     [text_ok |-> TRUE, nopts |-> 3, ci |-> JFloat(2)],
     [text_ok |-> TRUE, nopts |-> 2, ci |-> JStr],
     [text_ok |-> TRUE, nopts |-> 2, ci |-> JNull],
     [text_ok |-> TRUE, nopts |-> 2, ci |-> JInf]}

\* the oracle's outcomes for the cleaning: the outcomes of a quiz start, one
\* question of any kind, and one question repeated once more than the quiz
\* holds
GenOutcomes ==
    QuizOutcomes
    \cup {[kind |-> "json", questions |-> <<q>>] : q \in GenQuestions}
    \cup {[kind |-> "json", questions |-> [i \in 1..(QuizSize + 1) |-> q]] : q \in GenQuestions}

\* one fixed quiz of MaxQuestions questions whose correct option is the second
PlainQuiz == [i \in 1..MaxQuestions |-> [text_ok |-> TRUE, nopts |-> 2, ci |-> JInt(1)]]
PlainOutcomes == OracleFails \cup {[kind |-> "json", questions |-> PlainQuiz]}

\* entries of the "answers" list of a submission
AnswerEntries == {JInt(1), JInt(2), JFloat(1), JStr, JNull, JInf}
AnswerLists == SeqsUpTo(AnswerEntries, MaxQuestions)

\* all right, all wrong, nothing answered
PlainAnswers ==
    {[i \in 1..MaxQuestions |-> JInt(1)], [i \in 1..MaxQuestions |-> JInt(0)], <<>>}

\* the results for which the oracle's explanation call raises
OracleFailSets == SUBSET (1..MaxQuestions)

\* every question answered rightly, wrongly, with no option or with null
ExplainAnswers == [1..MaxQuestions -> {JInt(0), JInt(1), JInt(-1), JNull}]

\* every question answered, each rightly or wrongly
MixedAnswers == [1..MaxQuestions -> {JInt(0), JInt(1)}]

FormValues == {FAbsent, FEmpty, FText, FNum(1), FNum(7)}

\* a field left empty, one float() rejects, one number
PlainForms == {FEmpty, FText, FNum(7)}

StatusValues == {"pending", "completed"}
PointsValues == {4, 5}
AnswerLens == {0, 5, 25}

GradingOutcomes ==
    {[kind |-> "raise", score |-> JAbsent, rating |-> JAbsent, next |-> JAbsent],
     [kind |-> "nonjson", score |-> JAbsent, rating |-> JAbsent, next |-> JAbsent],
     [kind |-> "nodict", score |-> JAbsent, rating |-> JAbsent, next |-> JAbsent],
     [kind |-> "json", score |-> JInt(3), rating |-> JInt(4), next |-> JInt(2)],
     [kind |-> "json", score |-> JInt(3), rating |-> JInt(2), next |-> JInt(2)],
     [kind |-> "json", score |-> JInt(9), rating |-> JInt(7), next |-> JAbsent],
     [kind |-> "json", score |-> JAbsent, rating |-> JNull, next |-> JAbsent],
     [kind |-> "json", score |-> JAbsent, rating |-> JAbsent, next |-> JAbsent],
     [kind |-> "json", score |-> JInt(3), rating |-> JNaN, next |-> JInt(0)]}

UpdateRequests ==
    {[status |-> st, points |-> None, course |-> None] : st \in {Some(x) : x \in StatusValues}}
    \cup {[status |-> None, points |-> Some(p), course |-> None] : p \in PointsValues}

\* ------------------------------------------------------------ mini-games
\* A number of a score request is [t, q]: "num" with the rational q it
\* carries, "str" for a string that is no number, "absent" for a missing key.
GNum(n, d) == [t |-> "num", q |-> Rat(n, d)]
GStr == [t |-> "str", q |-> Rat(0, 1)]
GAbsent == [t |-> "absent", q |-> Rat(0, 1)]

\* "int(data.get(k) or 0)": a missing key and 0 give 0, a number is cut
\* towards zero, a string that is no number raises ValueError
IntOrZero(x) ==
    CASE x.t = "absent" -> [exc |-> "", v |-> 0]
      [] x.t = "str" -> [exc |-> "ValueError", v |-> 0]
      [] x.t = "num" ->
            [exc |-> "",
             v |-> IF x.q.n >= 0 THEN x.q.n \div x.q.d ELSE -((-x.q.n) \div x.q.d)]

RatMul(p, q) == Rat(p.n * q.n, p.d * q.d)

TimeBudget == 120

\* time_factor without the lower limit
TimeFactorNoFloor(seconds) ==
    LET f == Rat(TimeBudget, seconds)
    IN  IF RatLess(Rat(3, 1), f) THEN Rat(3, 1) ELSE f

\* "time_factor = 120.0 / float(seconds)", raised to 0.5 and cut to 3.0
TimeFactor(seconds) ==
    LET f == Rat(TimeBudget, seconds)
        g == IF RatLess(f, Rat(1, 2)) THEN Rat(1, 2) ELSE f
    IN  IF RatLess(Rat(3, 1), g) THEN Rat(3, 1) ELSE g

\* "if seconds < 1: seconds = 1"
AtLeastOne(seconds) == IF seconds < 1 THEN 1 ELSE seconds

\* score_value of a crossword or word-search round
WordGameScore(count, seconds) == RatMul(Rat(count, 1), TimeFactor(seconds))

WordGames == {"crossword", "wordsearch"}
GameTypes == {"tictactoe"} \cup WordGames

\* the document a round of a word game inserts
WordGameEvent(game, email, count, seconds) ==
    [game_type |-> game, student_email |-> email,
     score |-> WordGameScore(count, seconds), count |-> count, time_seconds |-> seconds]

\* api_record_crossword_score and api_record_wordsearch_score: signed tells
\* whether the session holds a user_id
RecordWordGame(w, game, signed, email, count, total, seconds) ==
    /\ pc[w] = "idle"
    /\ BagCardinality(gameScores) < MaxEvents
    /\ IF ~signed
       THEN Finish(w, "auth_required") /\ UNCHANGED gameScores
       ELSE IF \/ IntOrZero(count).exc # ""
               \/ IntOrZero(total).exc # ""
               \/ IntOrZero(seconds).exc # ""
            THEN Finish(w, "error") /\ UNCHANGED gameScores
            ELSE /\ gameScores' = gameScores (+) SetToBag({
                        WordGameEvent(game, email, IntOrZero(count).v,
                                      AtLeastOne(IntOrZero(seconds).v))})
                 /\ Finish(w, "recorded")
    /\ UNCHANGED <<assignments, nextId, reports, nextReport, now, ollama, courseRating>>

\* score_map: win = 3, draw = 1, loss = 0, anything else 0
TicTacToeScore(result) ==
    CASE result = "win" -> 3
      [] result = "draw" -> 1
      [] OTHER -> 0

\* api_record_tictactoe_score
RecordTicTacToe(w, signed, email, result) ==
    /\ pc[w] = "idle"
    /\ BagCardinality(gameScores) < MaxEvents
    /\ IF ~signed
       THEN Finish(w, "auth_required") /\ UNCHANGED gameScores
       ELSE /\ gameScores' = gameScores (+) SetToBag({
                   [game_type |-> "tictactoe", student_email |-> email,
                    score |-> Rat(TicTacToeScore(result), 1), count |-> 0, time_seconds |-> 0]})
            /\ Finish(w, "recorded")
    /\ UNCHANGED <<assignments, nextId, reports, nextReport, now, ollama, courseRating>>

\* $match: the distinct documents of a game type
GameEvents(game) == {e \in BagToSet(gameScores) : e.game_type = game}

\* {"$sum": "$score"} over the documents of S, each as often as it is stored
RECURSIVE ScoreSum(_)
ScoreSum(S) ==
    IF S = {} THEN Rat(0, 1)
    ELSE LET e == CHOOSE x \in S : TRUE
         IN  RatAdd(RatMul(Rat(CopiesIn(e, gameScores), 1), e.score), ScoreSum(S \ {e}))

\* {"$sum": 1} over the documents of S
RECURSIVE EventCount(_)
EventCount(S) ==
    IF S = {} THEN 0
    ELSE LET e == CHOOSE x \in S : TRUE
         IN  CopiesIn(e, gameScores) + EventCount(S \ {e})

\* $group by student_email
GroupRows(game) ==
    {LET S == {e \in GameEvents(game) : e.student_email = email}
     IN  [email |-> email, total_score |-> ScoreSum(S), games |-> EventCount(S)] :
        email \in {e.student_email : e \in GameEvents(game)}}

\* {"$sort": {"total_score": -1}}: every order of the rows by falling total;
\* the order of rows of equal total is not determined
RECURSIVE SortedRows(_)
SortedRows(R) ==
    IF R = {} THEN {<<>>}
    ELSE UNION {{<<x>> \o s : s \in SortedRows(R \ {x})} :
                  x \in {y \in R : \A z \in R : RatLeq(z.total_score, y.total_score)}}

LeaderboardSize == 5

\* the sorted rows without "$limit"
LeaderboardUnlimited(game) == SortedRows(GroupRows(game))

\* build_game_leaderboard: the rows a call may return
Leaderboard(game) ==
    {SubSeq(s, 1, Min(Len(s), LeaderboardSize)) : s \in SortedRows(GroupRows(game))}

\* dashboard: the three leaderboards of the page
Dashboard(w, signed) ==
    /\ pc[w] = "idle"
    /\ IF ~signed
       THEN Finish(w, "redirect_login")
       ELSE \E t \in Leaderboard("tictactoe"), c \in Leaderboard("crossword"),
               ws \in Leaderboard("wordsearch") :
               FinishWith(w, "dashboard",
                          [kind |-> "dashboard",
                           boards |-> [g \in GameTypes |->
                                         CASE g = "tictactoe" -> t
                                           [] g = "crossword" -> c
                                           [] OTHER -> ws]])
    /\ UNCHANGED <<assignments, nextId, reports, nextReport, now, ollama, courseRating, gameScores>>

\* inputs of the score requests
Players == {"s1", "s2", "s3", "s4", "s5", "s6"}
CountValues == {GAbsent, GStr, GNum(4, 1), GNum(5, 2), GNum(-1, 1)}
SecondsValues ==
    {GAbsent, GStr, GNum(0, 1), GNum(1, 2), GNum(30, 1), GNum(81, 2), GNum(150, 1), GNum(600, 1)}
TotalValues == {GStr, GNum(4, 1)}
Results == {"win", "draw", "loss", ""}

\* ------------------------------------------------------ specifications
\* The whole system: every handler, every thread, every input.
Next ==
    \/ \E w \in Workers, e \in Emails, c \in Courses : StartQuizCount(w, e, c)
    \/ \E w \in Workers, out \in QuizOutcomes : StartQuizInsert(w, out)
    \/ \E w \in Workers, a \in AssignmentArgs, ans \in AnswerLists : SubmitQuizRead(w, a, ans)
    \/ \E w \in Workers, fails \in OracleFailSets : SubmitQuizWrite(w, fails)
    \/ \E w \in Workers, a \in AssignmentArgs : GetQuiz(w, a)
    \/ \E w \in Workers, e \in Emails, adm \in BOOLEAN, a \in AssignmentArgs :
          DetailRead(w, e, adm, a)
    \/ \E w \in Workers : DetailBuild(w)
    \/ \E w \in Workers, st \in {None} \cup {Some(x) : x \in StatusValues} :
          ListAssignments(w, st)
    \/ \E w \in Workers, a \in AssignmentArgs : AdminDeleteAssignment(w, a)
    \/ \E w \in Workers, e \in Emails, c \in Courses, st \in StatusValues,
          sd \in Emails \cup {""}, p \in PointsValues : AddAssignment(w, e, c, sd, st, p)
    \/ \E w \in Workers, e \in Emails, a \in AssignmentArgs, d \in UpdateRequests :
          UpdateAssignment(w, e, a, d)
    \/ \E w \in Workers, e \in Emails, a \in AssignmentArgs : DeleteAssignment(w, e, a)
    \/ \E w \in Workers, e \in Emails, a \in AssignmentArgs, n \in AnswerLens :
          SubmitTextRead(w, e, a, n)
    \/ \E w \in Workers : SubmitTextBind(w)
    \/ \E w \in Workers, out \in GradingOutcomes : SubmitTextGrade(w, out)
    \/ \E w \in Workers : SubmitTextAggregate(w)
    \/ \E w \in Workers : SubmitTextCourse(w)
    \/ \E w \in Workers, a \in AssignmentArgs : ReportAssignment(w, a)
    \/ \E w \in Workers, a \in AssignmentArgs, k \in QuestionArgs : ReportQuestion(w, a, k)
    \/ \E w \in Workers, r \in ReportArgs, sr \in FormValues, rr \in FormValues :
          ResolveRead(w, r, sr, rr)
    \/ \E w \in Workers : ResolveUpdate(w)
    \/ \E w \in Workers : ResolveUpdateFails(w)
    \/ \E w \in Workers : ResolveMark(w)
    \/ \E w \in Workers, a \in AssignmentArgs, sr \in FormValues, rr \in FormValues :
          AdminUpdateMarks(w, a, sr, rr)
    \/ \E w \in Workers, a \in AssignmentArgs, ch \in SUBSET QuestionArgs : ReviewRead(w, a, ch)
    \/ \E w \in Workers : ReviewWrite(w)
    \/ \E w \in Workers, g \in WordGames, sg \in BOOLEAN, e \in Players,
          c \in CountValues, t \in TotalValues, sec \in SecondsValues :
          RecordWordGame(w, g, sg, e, c, t, sec)
    \/ \E w \in Workers, sg \in BOOLEAN, e \in Players, r \in Results :
          RecordTicTacToe(w, sg, e, r)
    \/ \E w \in Workers, sg \in BOOLEAN : Dashboard(w, sg)

Spec == Init /\ [][Next]_vars

\* The specifications below are Spec with the requests narrowed to a scenario:
\* fewer threads, users, documents or inputs, every handler step unchanged.
\* Where explanations are not the subject, the oracle's explanation calls succeed.

\* Scoring: one thread, one user, one quiz of any generated shape, submitted
\* with any list of answers, again and again.
ScoringNext ==
    \/ \E c \in Courses : StartQuizCount("w1", "s1", c) /\ nextId = 1
    \/ \E out \in QuizOutcomes : StartQuizInsert("w1", out)
    \/ \E a \in AssignmentArgs, ans \in AnswerLists :
          SubmitQuizRead("w1", a, ans)
    \/ SubmitQuizWrite("w1", {})

ScoringSpec == Init /\ [][ScoringNext]_vars

\* Race: two threads submit to one plain quiz, again and again.
RaceNext ==
    \/ \E w \in Workers, c \in Courses : StartQuizCount(w, "s1", c) /\ nextId = 1
    \/ \E w \in Workers, out \in PlainOutcomes : StartQuizInsert(w, out) /\ nextId = 1
    \/ \E w \in Workers, a \in AssignmentArgs, ans \in PlainAnswers : SubmitQuizRead(w, a, ans)
    \/ \E w \in Workers : SubmitQuizWrite(w, {})

RaceSpec == Init /\ [][RaceNext]_vars

\* Levels: one thread; plain quizzes of two users are started, submitted
\* and deleted; the first question of the first quiz is reported once and the
\* report is resolved, again and again, with no manual value.
LevelNext ==
    \/ \E e \in Emails, c \in Courses : StartQuizCount("w1", e, c)
    \/ \E out \in PlainOutcomes : StartQuizInsert("w1", out)
    \/ \E a \in AssignmentArgs : SubmitQuizRead("w1", a, <<>>)
    \/ SubmitQuizWrite("w1", {})
    \/ \E a \in AssignmentArgs : AdminDeleteAssignment("w1", a)
    \/ ReportQuestion("w1", 1, 0) /\ nextReport = 1
    \/ \E r \in ReportArgs : ResolveRead("w1", r, FEmpty, FEmpty)
    \/ ResolveUpdate("w1")
    \/ ResolveMark("w1")

LevelSpec == Init /\ [][LevelNext]_vars

\* Disputes: one thread; one plain quiz is submitted, reported once, reviewed,
\* re-marked, deleted, and its report is resolved.
DisputeNext ==
    \/ \E c \in Courses : StartQuizCount("w1", "s1", c) /\ nextId = 1
    \/ \E out \in PlainOutcomes : StartQuizInsert("w1", out)
    \/ \E a \in AssignmentArgs, ans \in PlainAnswers : SubmitQuizRead("w1", a, ans)
    \/ SubmitQuizWrite("w1", {})
    \/ \E a \in AssignmentArgs : AdminDeleteAssignment("w1", a)
    \/ \E a \in AssignmentArgs : ReportAssignment("w1", a) /\ nextReport = 1
    \/ \E a \in AssignmentArgs, k \in QuestionArgs : ReportQuestion("w1", a, k) /\ nextReport = 1
    \/ \E r \in ReportArgs, sr \in PlainForms, rr \in PlainForms : ResolveRead("w1", r, sr, rr)
    \/ ResolveUpdate("w1")
    \/ ResolveUpdateFails("w1")
    \/ ResolveMark("w1")
    \/ \E a \in AssignmentArgs, sr \in PlainForms, rr \in PlainForms :
          AdminUpdateMarks("w1", a, sr, rr)
    \/ \E a \in AssignmentArgs, ch \in SUBSET QuestionArgs : ReviewRead("w1", a, ch)
    \/ ReviewWrite("w1")

DisputeSpec == Init /\ [][DisputeNext]_vars

\* Resolution: one thread; one plain quiz is submitted with any full list of
\* right and wrong answers and reported once; its report is resolved with and
\* without manual values.
ResolveNext ==
    \/ \E c \in Courses : StartQuizCount("w1", "s1", c) /\ nextId = 1
    \/ \E out \in PlainOutcomes : StartQuizInsert("w1", out)
    \/ \E a \in AssignmentArgs, ans \in MixedAnswers : SubmitQuizRead("w1", a, ans)
    \/ SubmitQuizWrite("w1", {})
    \/ \E a \in AssignmentArgs : ReportAssignment("w1", a) /\ nextReport = 1
    \/ \E a \in AssignmentArgs, k \in QuestionArgs : ReportQuestion("w1", a, k) /\ nextReport = 1
    \/ \E r \in ReportArgs, sr \in PlainForms, rr \in {FEmpty, FNum(7)} :
          ResolveRead("w1", r, sr, rr)
    \/ ResolveUpdate("w1")
    \/ ResolveMark("w1")

ResolveSpec == Init /\ [][ResolveNext]_vars

\* Free text: one thread; an instructor adds one pending assignment, bound
\* to a student or to none, and the instructor, that student and a third
\* user submit answers to it, again and again, graded by any output of the
\* oracle.
TextNext ==
    \/ \E c \in Courses, sd \in {"", "s2"}, p \in PointsValues :
          AddAssignment("w1", "s1", c, sd, "pending", p) /\ nextId = 1
    \/ \E e \in Emails \cup {"s3"}, a \in AssignmentArgs, n \in AnswerLens :
          SubmitTextRead("w1", e, a, n)
    \/ SubmitTextBind("w1")
    \/ \E out \in GradingOutcomes : SubmitTextGrade("w1", out)
    \/ SubmitTextAggregate("w1")
    \/ SubmitTextCourse("w1")

TextSpec == Init /\ [][TextNext]_vars

\* Explanations: one thread; one plain quiz is submitted, again and again,
\* while the oracle fails on any subset of the explanations asked of it.
ExplainNext ==
    \/ \E c \in Courses : StartQuizCount("w1", "s1", c) /\ nextId = 1
    \/ \E out \in PlainOutcomes : StartQuizInsert("w1", out)
    \/ \E a \in AssignmentArgs, ans \in ExplainAnswers : SubmitQuizRead("w1", a, ans)
    \/ \E fails \in OracleFailSets : SubmitQuizWrite("w1", fails)

ExplainSpec == Init /\ [][ExplainNext]_vars

\* Concurrent grants: one plain quiz is submitted with wrong answers, each of
\* its questions is reported once, and two threads resolve the reports with
\* no manual values.
GrantRaceNext ==
    \/ \E c \in Courses : StartQuizCount("w1", "s1", c) /\ nextId = 1
    \/ \E out \in PlainOutcomes : StartQuizInsert("w1", out)
    \/ \E ans \in MixedAnswers : SubmitQuizRead("w1", 1, ans) /\ nextReport = 1
    \/ SubmitQuizWrite("w1", {})
    \/ /\ 1 \in Ids
       /\ assignments[1].status = "completed"
       /\ ReportQuestion("w1", 1, nextReport - 1)
    \/ \E w \in Workers, r \in ReportArgs : ResolveRead(w, r, FEmpty, FEmpty)
    \/ \E w \in Workers : ResolveUpdate(w)
    \/ \E w \in Workers : ResolveMark(w)

GrantRaceSpec == Init /\ [][GrantRaceNext]_vars

\* Courses: one thread; an instructor adds two pending assignments of one
\* course and sets their status; a student submits answers to them, graded
\* by well-formed outputs of the oracle.
CourseNext ==
    \/ \E c \in Courses : AddAssignment("w1", "s1", c, "s2", "pending", 5) /\ nextId <= 2
    \/ \E a \in AssignmentArgs, st \in StatusValues :
          UpdateAssignment("w1", "s1", a, [status |-> Some(st), points |-> None, course |-> None])
    \/ \E a \in AssignmentArgs : SubmitTextRead("w1", "s2", a, 25)
    \/ \E out \in {o \in GradingOutcomes : o.score = JInt(3) /\ o.rating # JNaN} :
          SubmitTextGrade("w1", out)
    \/ SubmitTextAggregate("w1")
    \/ SubmitTextCourse("w1")

CourseSpec == Init /\ [][CourseNext]_vars

\* Binding: an instructor adds one unbound pending assignment and two threads
\* submit answers to it, each for any student, graded by a well-formed or a
\* failing output of the oracle.
BindNext ==
    \/ \E w \in Workers, c \in Courses :
          AddAssignment(w, "s1", c, "", "pending", 5) /\ nextId = 1
    \/ \E w \in Workers, e \in Emails, a \in AssignmentArgs :
          SubmitTextRead(w, e, a, 25)
    \/ \E w \in Workers : SubmitTextBind(w)
    \/ \E w \in Workers, out \in {o \in GradingOutcomes : o.rating \in {JAbsent, JInt(4)}} :
          SubmitTextGrade(w, out)
    \/ \E w \in Workers : SubmitTextAggregate(w)
    \/ \E w \in Workers : SubmitTextCourse(w)

BindSpec == Init /\ [][BindNext]_vars

\* Word games: one thread; two rounds of crossword or word search are
\* recorded with any counts and seconds.
GameNext ==
    \/ \E g \in WordGames, sg \in BOOLEAN,
          c \in CountValues, t \in TotalValues, sec \in SecondsValues :
          RecordWordGame("w1", g, sg, "s1", c, t, sec) /\ BagCardinality(gameScores) < 2
    \/ \E sg \in BOOLEAN : Dashboard("w1", sg)

GameSpec == Init /\ [][GameNext]_vars

\* Leaderboards: one thread; six students play tic-tac-toe, one of them also a
\* crossword, and the dashboard is opened at any time.
LeaderNext ==
    \/ \E e \in Players, r \in {"win", "draw"} :
          (e \in Emails \/ r = "win") /\ RecordTicTacToe("w1", TRUE, e, r)
    \/ RecordWordGame("w1", "crossword", TRUE, "s1", GNum(4, 1), GAbsent, GNum(30, 1))
    \/ \E sg \in BOOLEAN : Dashboard("w1", sg)

LeaderSpec == Init /\ [][LeaderNext]_vars

\* Generation: one thread; two quizzes are started with any outcome of the
\* oracle.
GenNext ==
    \/ \E c \in Courses : StartQuizCount("w1", "s1", c) /\ nextId <= 2
    \/ \E out \in GenOutcomes : StartQuizInsert("w1", out)

GenSpec == Init /\ [][GenNext]_vars

\* Views: one thread; a student starts plain quizzes and submits them; the
\* students (never an admin) fetch quizzes, their details and the list.
ViewNext ==
    \/ \E c \in Courses : StartQuizCount("w1", "s1", c)
    \/ \E out \in PlainOutcomes : StartQuizInsert("w1", out)
    \/ \E a \in AssignmentArgs, ans \in PlainAnswers : SubmitQuizRead("w1", a, ans)
    \/ SubmitQuizWrite("w1", {})
    \/ \E a \in AssignmentArgs : GetQuiz("w1", a)
    \/ \E e \in Emails, a \in AssignmentArgs : DetailRead("w1", e, FALSE, a)
    \/ DetailBuild("w1")
    \/ \E st \in {None, Some("pending")} : ListAssignments("w1", st)

ViewSpec == Init /\ [][ViewNext]_vars

\* ================================================================ claims

\* C1 (as claimed): a submission that finds its quiz already completed is
\* answered AlreadyCompleted, and the stored score and rating stay those of
\* the first submission, whatever answers it carries.
C1_SecondSubmissionRejected ==
    [][\A w \in Workers :
          (/\ pc[w] = "quiz_write"
           /\ local[w].doc.status = "completed"
           /\ pc'[w] = "idle"
           /\ local[w].aid \in Ids)
          => /\ resp'[w] = "already_completed"
             /\ local[w].aid \in DOMAIN assignments'
             /\ assignments'[local[w].aid].score = assignments[local[w].aid].score
             /\ assignments'[local[w].aid].rating = assignments[local[w].aid].rating]_vars

\* the number of indices whose answer, read as an integer, is the correct index
MatchCount(questions, answers) ==
    Cardinality({i \in 1..Len(questions) :
                    /\ i <= Len(answers)
                    /\ PyInt(answers[i]).exc = ""
                    /\ PyInt(answers[i]).v = questions[i].correct_index})

\* C2 (as claimed): every submission to a stored quiz succeeds, whatever its
\* answer entries are, and stores score = the number of indices whose answer,
\* read as an integer, equals the question's correct_index.
C2_ScoreCountsMatches ==
    [][\A w \in Workers :
          (pc[w] = "quiz_write" /\ pc'[w] = "idle" /\ local[w].aid \in Ids)
          => /\ resp'[w] = "quiz_submitted"
             /\ assignments'[local[w].aid].score =
                    Some(MatchCount(local[w].doc.question_set, local[w].answers))]_vars

\* C2, the part the code keeps: a submission that is answered with success
\* stored score = the number of matching indices.
C2_ScoreOfAcceptedSubmission ==
    [][\A w \in Workers :
          (/\ pc[w] = "quiz_write" /\ pc'[w] = "idle" /\ local[w].aid \in Ids
           /\ resp'[w] = "quiz_submitted")
          => assignments'[local[w].aid].score =
                 Some(MatchCount(local[w].doc.question_set, local[w].answers))]_vars

\* C3: the rating stored by a quiz submission is 5 * score / numQuestions and
\* lies in [0, 5] (in ScoringSpec only submissions write a quiz, so every
\* completed quiz shows what its last submission stored).
C3_QuizRating ==
    \A a \in Ids :
        (assignments[a].assignment_type = QuizType /\ assignments[a].status = "completed")
        => /\ Len(assignments[a].question_set) >= 1
           /\ ~IsNone(assignments[a].score)
           /\ ~IsNone(assignments[a].rating)
           /\ LET r == Val(assignments[a].rating)
                  n == Len(assignments[a].question_set)
              IN  /\ r.d > 0
                  /\ r.n * n = 5 * Val(assignments[a].score) * r.d
                  /\ 0 <= r.n
                  /\ r.n <= 5 * r.d

\* a quiz of several questions is completed with some, not all, answers right
C3_Witness ==
    \E a \in Ids :
        /\ assignments[a].status = "completed"
        /\ Len(assignments[a].question_set) >= 2
        /\ ~IsNone(assignments[a].score)
        /\ 0 < Val(assignments[a].score)
        /\ Val(assignments[a].score) < Len(assignments[a].question_set)

\* C4 (as claimed): of two submissions that both read the quiz pending, the
\* one that writes second finds the quiz completed, is answered
\* AlreadyCompleted and changes nothing.
C4_OneTransition ==
    [][\A w \in Workers :
          (/\ pc[w] = "quiz_write"
           /\ local[w].doc.status = "pending"
           /\ local[w].aid \in Ids
           /\ assignments[local[w].aid].status = "completed"
           /\ pc'[w] = "idle")
          => /\ resp'[w] = "already_completed"
             /\ assignments' = assignments]_vars

\* C5 (as claimed): a pending assignment has no score, no rating and no
\* completion timestamp.
C5_PendingUnset ==
    \A a \in Ids :
        assignments[a].status = "pending"
        => /\ IsNone(assignments[a].score)
           /\ IsNone(assignments[a].rating)
           /\ IsNone(assignments[a].completed_at)

CompletedQuizzesIn(coll, email, course) ==
    {a \in DOMAIN coll : /\ coll[a].assignment_type = QuizType
                         /\ coll[a].status = "completed"
                         /\ coll[a].student_email = email
                         /\ coll[a].course = course}

GrantCase(w) ==
    /\ pc[w] = "resolve_mark"
    /\ local[w].report.type = "question"
    /\ ~IsNone(local[w].report.question_index)
    /\ local[w].doc.assignment_type = QuizType
    /\ Val(local[w].report.question_index) < Len(local[w].doc.results)
    /\ local[w].score_raw.t # "num"
    /\ local[w].rating_raw.t # "num"
    /\ local[w].aid \in Ids

\* C7: when the update of such a resolution is done (no other request runs
\* in ResolveSpec), the reported result is correct, every other result is as
\* correct as before, score is the number of correct results and rating is
\* 5 * score / number of results.
C7_CreditGrant ==
    \A w \in Workers :
        GrantCase(w)
        => LET old == local[w].doc.results
               new == assignments[local[w].aid].results
               k == Val(local[w].report.question_index) + 1
               score == assignments[local[w].aid].score
               rating == assignments[local[w].aid].rating
           IN  /\ Len(new) = Len(old)
               /\ new[k].is_correct
               /\ \A j \in (1..Len(old)) \ {k} : new[j].is_correct = old[j].is_correct
               /\ score = Some(Cardinality({j \in 1..Len(new) : new[j].is_correct}))
               /\ ~IsNone(rating)
               /\ Val(rating).d > 0
               /\ Val(rating).n * Len(new) = 5 * Val(score) * Val(rating).d

\* such a resolution of a wrong answer, on a quiz with another wrong answer
C7_Witness ==
    \E w \in Workers :
        /\ GrantCase(w)
        /\ ~local[w].doc.results[Val(local[w].report.question_index) + 1].is_correct
        /\ \E j \in 1..Len(local[w].doc.results) :
              /\ j # Val(local[w].report.question_index) + 1
              /\ ~local[w].doc.results[j].is_correct

\* C8 (as claimed): a resolved report is never written again, and a resolve
\* request that found its report resolved does not write the assignment.
C8_ResolvedOnce ==
    [][/\ \A r \in ReportIds :
            reports[r].status = "resolved"
            => (r \in DOMAIN reports' /\ reports'[r] = reports[r])
       /\ \A w \in Workers :
            (pc[w] = "resolve_update" /\ local[w].report.status = "resolved")
            => assignments' = assignments]_vars

\* C9 (as claimed): a resolve request for an existing report ends with the
\* report resolved and stamped: when its handler stops after the update of the
\* assignment, and when it answers that the assignment is not found (then some
\* report whose assignment is missing must have become resolved).
C9_AlwaysResolved ==
    [][\A w \in Workers :
          /\ (pc[w] \in {"resolve_update", "resolve_mark"} /\ pc'[w] = "idle")
             => /\ reports'[local[w].rid].status = "resolved"
                /\ ~IsNone(reports'[local[w].rid].resolved_at)
          /\ (resp[w] # "assignment_not_found" /\ resp'[w] = "assignment_not_found")
             => \E r \in ReportIds :
                   /\ reports[r].assignment_id \notin Ids
                   /\ reports'[r].status = "resolved"]_vars

\* the handler of thread w has passed the update of a resolution whose score
\* or rating field holds a number
ManualCase(w) ==
    /\ pc[w] = "resolve_mark"
    /\ (local[w].score_raw.t = "num" \/ local[w].rating_raw.t = "num")
    /\ local[w].aid \in Ids

\* C10: after the update of a resolution with manual values (no other request
\* runs in ResolveSpec), score is the supplied score, else the score as it was,
\* rating likewise, and the results are as they were: no credit is granted.
C10_ManualOnly ==
    \A w \in Workers :
        ManualCase(w)
        => LET old == local[w].doc
               new == assignments[local[w].aid]
           IN  /\ new.score = IF local[w].score_raw.t = "num"
                              THEN Some(local[w].score_raw.v) ELSE old.score
               /\ new.rating = IF local[w].rating_raw.t = "num"
                               THEN Some(Rat(local[w].rating_raw.v, 1)) ELSE old.rating
               /\ new.results = old.results

\* a manual score alone, on a question report whose credit could be granted
C10_Witness ==
    \E w \in Workers :
        /\ ManualCase(w)
        /\ local[w].score_raw.t = "num"
        /\ local[w].rating_raw.t # "num"
        /\ GrantApplies(local[w].report, local[w].doc)
        /\ ~local[w].doc.results[Val(local[w].report.question_index) + 1].is_correct
        /\ ~IsNone(local[w].doc.rating)

\* the oracle's grading output cannot be parsed: it is no JSON, or it is a
\* JSON object that lacks score, rating or next_difficulty_level
Unparseable(out) ==
    \/ out.kind = "nonjson"
    \/ /\ out.kind = "json"
       /\ "absent" \in {out.score.t, out.rating.t, out.next.t}

\* the handler of thread w has graded and written a free-text submission
Graded(w) == pc[w] = "text_aggregate" /\ local[w].aid \in Ids

\* C11 (as claimed): a free-text submission whose grading output cannot be
\* parsed is stored with score maxPoints and rating 5 when the answer is longer
\* than 20 characters, and with score maxPoints/2 and rating 3 otherwise.
C11_FallbackOnUnparseable ==
    \A w \in Workers :
        (Graded(w) /\ Unparseable(local[w].grading))
        => LET doc == assignments[local[w].aid]
               long == local[w].answer_len > AnswerThreshold
           IN  /\ ~IsNone(doc.score)
               /\ IF long THEN Val(doc.score) = local[w].doc.points
                          ELSE 2 * Val(doc.score) = local[w].doc.points
               /\ doc.rating = Some(Rat(IF long THEN 5 ELSE 3, 1))

\* C11, the part the code keeps: when the output is no JSON, the score is
\* maxPoints or the integer half of it, and the rating 5 or 3.
C11_FallbackOnNonJson ==
    \A w \in Workers :
        (Graded(w) /\ local[w].grading.kind = "nonjson")
        => LET doc == assignments[local[w].aid]
               long == local[w].answer_len > AnswerThreshold
           IN  /\ doc.score = Some(IF long THEN local[w].doc.points
                                           ELSE local[w].doc.points \div 2)
               /\ doc.rating = Some(Rat(IF long THEN 5 ELSE 3, 1))

\* C12 (as claimed): a graded free-text submission stores and returns a score
\* in [0, maxPoints] and a rating in [0, 5], and returns a next difficulty
\* level in [1, 5].
C12_GradingInRange ==
    \A w \in Workers :
        Graded(w)
        => LET doc == assignments[local[w].aid]
               res == local[w].result
           IN  /\ 0 <= res.score /\ res.score <= res.max_points
               /\ RatLeq(Rat(0, 1), res.rating) /\ RatLeq(res.rating, Rat(5, 1))
               /\ 1 <= res.next_difficulty_level /\ res.next_difficulty_level <= 5
               /\ doc.score = Some(res.score)
               /\ doc.rating = Some(res.rating)

\* C12, the part the code keeps: the score and the next level are in range,
\* and so is every rating that is a number.
C12_GradingInRangeUnlessNaN ==
    \A w \in Workers :
        Graded(w)
        => LET res == local[w].result
           IN  /\ 0 <= res.score /\ res.score <= res.max_points
               /\ 1 <= res.next_difficulty_level /\ res.next_difficulty_level <= 5
               /\ res.rating # NaN
                    => RatLeq(Rat(0, 1), res.rating) /\ RatLeq(res.rating, Rat(5, 1))

\* C13 (as claimed): no free-text submission is answered with "the oracle is
\* unavailable" or "grading failed".
C13_OracleFailureAbsorbed ==
    \A w \in Workers : resp[w] \notin {"ollama_unavailable", "grading_failed"}

\* C14: whatever explanation calls fail, a quiz submission that scored is
\* answered with success and stores status completed, the number of matching
\* answers as score and 5 * score / number of questions as rating; a result
\* whose call failed holds the generic explanation, and a correct result
\* holds the fixed confirmation, for which the oracle is not called.
C14_ExplanationFailureHarmless ==
    [][\A w \in Workers, fails \in OracleFailSets :
          (/\ SubmitQuizWrite(w, fails)
           /\ ~ScoringRaises(local[w].doc.question_set, local[w].answers)
           /\ local[w].aid \in Ids)
          => LET doc == assignments'[local[w].aid]
                 n == Len(local[w].doc.question_set)
                 score == MatchCount(local[w].doc.question_set, local[w].answers)
             IN  /\ resp'[w] = "quiz_submitted"
                 /\ doc.status = "completed"
                 /\ doc.score = Some(score)
                 /\ ~IsNone(doc.rating)
                 /\ Val(doc.rating).d > 0
                 /\ Val(doc.rating).n * n = 5 * score * Val(doc.rating).d
                 /\ Len(doc.results) = n
                 /\ \A i \in 1..n :
                       /\ doc.results[i].is_correct
                            => doc.results[i].explanation = "confirmation"
                       /\ doc.results[i].explanation \in {"oracle", "generic"}
                            => (doc.results[i].explanation = "generic" <=> i \in fails)]_vars

\* a stored submission with a right answer and a wrong one whose explanation
\* call failed
C14_Witness ==
    \E a \in Ids :
        /\ assignments[a].status = "completed"
        /\ \E i, j \in 1..Len(assignments[a].results) :
              /\ assignments[a].results[i].explanation = "generic"
              /\ assignments[a].results[j].is_correct

\* the assignments whose questions' correct_index a response's data holds
Disclosed(b) ==
    CASE b.kind = "detail" ->
           {a \in {b.aid} : \E i \in 1..Len(b.questions) :
                                "correct_index" \in DOMAIN b.questions[i]}
      [] b.kind = "quiz" ->
           {a \in {b.aid} : \E i \in 1..Len(b.questions) :
                                "correct_index" \in DOMAIN b.questions[i]}
      [] b.kind = "list" ->
           {a \in DOMAIN b.docs : \E i \in 1..Len(b.docs[a].question_set) :
                                      "correct_index" \in DOMAIN b.docs[a].question_set[i]}
      [] OTHER -> {}

\* C15 (as claimed): the data of a response to a student never holds the
\* correct_index of a question of a quiz that is pending (a quiz never goes
\* back to pending, so one pending now was pending when the response was made).
C15_NoCorrectIndexBeforeSubmission ==
    \A w \in Workers :
        \A a \in Disclosed(body[w]) \cap Ids :
            assignments[a].assignment_type = QuizType => assignments[a].status # "pending"

\* C15, the part the code keeps: quiz start and quiz fetch hold no correct_index.
C15_StartAndFetchHideIndex ==
    \A w \in Workers : body[w].kind = "quiz" => Disclosed(body[w]) = {}

\* the oracle's outcome holds a question with a text and at least 2 options
Survives(out) ==
    /\ out.kind = "json"
    /\ \E i \in 1..Len(out.questions) : out.questions[i].text_ok /\ out.questions[i].nopts >= 2

\* C16: a quiz start stores an assignment only if a question survives the
\* validation, and then the stored quiz holds at least one question; when the
\* oracle call fails, no JSON is recovered or no question survives, the start
\* fails and the stored assignments are unchanged.
C16_PersistOnlyWithQuestions ==
    [][\A w \in Workers, out \in GenOutcomes :
          StartQuizInsert(w, out)
          => /\ (assignments' # assignments)
                  => /\ Survives(out)
                     /\ DOMAIN assignments' = DOMAIN assignments \cup {nextId}
                     /\ Len(assignments'[nextId].question_set) >= 1
             /\ ~Survives(out)
                  => /\ assignments' = assignments
                     /\ nextId' = nextId
                     /\ resp'[w] \in {"generation_failed", "error"}]_vars

\* a failed start after a stored quiz: the stored quiz is still the only one
C16_Witness ==
    \E w \in Workers :
        /\ resp[w] = "generation_failed"
        /\ Cardinality(Ids) = 1
        /\ nextId = 2

\* C17: every question of a stored quiz has 2 to 4 options and a
\* correct_index from 0 to the number of options - 1; a stored quiz holds at
\* most 10 questions and as many points as questions.
C17_StoredQuizWellFormed ==
    \A a \in Ids :
        assignments[a].assignment_type = QuizType
        => /\ Len(assignments[a].question_set) <= 10
           /\ assignments[a].points = Len(assignments[a].question_set)
           /\ \A i \in 1..Len(assignments[a].question_set) :
                 LET q == assignments[a].question_set[i]
                 IN  /\ 2 <= q.nopts /\ q.nopts <= 4
                     /\ 0 <= q.correct_index /\ q.correct_index < q.nopts

\* a stored quiz cut to 10 questions, each cut to 4 options
C17_Witness ==
    \E a \in Ids :
        /\ assignments[a].assignment_type = QuizType
        /\ Len(assignments[a].question_set) = 10
        /\ assignments[a].question_set[1].nopts = 4

\* the rows of a leaderboard are those the claim describes
GoodBoard(game, rows) ==
    /\ Len(rows) <= 5
    /\ \A i, j \in 1..Len(rows) :
          /\ i < j => RatLeq(rows[j].total_score, rows[i].total_score)
          /\ i # j => rows[i].email # rows[j].email
    /\ \A i \in 1..Len(rows) :
          LET S == {e \in BagToSet(gameScores) :
                      e.game_type = game /\ e.student_email = rows[i].email}
          IN  /\ rows[i].total_score = ScoreSum(S)
              /\ rows[i].games = EventCount(S)
              /\ rows[i].games >= 1

\* C18: each leaderboard of the dashboard holds at most 5 rows, ordered by
\* falling total score, one row per student, and a row's total is the sum of
\* the scores of the student's events of the game type and its game count
\* the number of those events.
C18_LeaderboardRows ==
    \A w \in Workers :
        body[w].kind = "dashboard"
        => \A g \in GameTypes : GoodBoard(g, body[w].boards[g])

\* six students have played, one of them twice, and the board shows five
C18_Witness ==
    \E w \in Workers :
        /\ body[w].kind = "dashboard"
        /\ Len(body[w].boards["tictactoe"]) = 5
        /\ Cardinality(GroupRows("tictactoe")) = 6
        /\ \E i \in 1..5 : body[w].boards["tictactoe"][i].games = 2

\* the number a request carries, 0 for a missing key
Carried(x) == x.q

\* a rational cut towards zero
Whole(q) == IF q.n >= 0 THEN Rat(q.n \div q.d, 1) ELSE Rat(-((-q.n) \div q.d), 1)

\* 120 / elapsed, clamped to [0.5, 3.0], elapsed below 1 raised to 1
Factor(elapsed) ==
    LET e == IF RatLess(elapsed, Rat(1, 1)) THEN Rat(1, 1) ELSE elapsed
        f == Rat(120 * e.d, e.n)
    IN  IF RatLess(f, Rat(1, 2)) THEN Rat(1, 2)
        ELSE IF RatLess(Rat(3, 1), f) THEN Rat(3, 1) ELSE f

\* the documents a step inserts
Inserted == {ev \in BagToSet(gameScores') : gameScores' = gameScores (+) SetToBag({ev})}

\* C19 as stated: the score recorded for a crossword or word-search round is
\* count * timeFactor of the count and the elapsed seconds of the request.
C19_ScoreFromRequest ==
    [][\A w \in Workers, ev \in Inserted :
          \A c \in CountValues, t \in TotalValues, sec \in SecondsValues :
             RecordWordGame(w, ev.game_type, TRUE, ev.student_email, c, t, sec)
             => ev.score = RatMul(Carried(c), Factor(Carried(sec)))]_vars

\* C19: the score recorded for a crossword or word-search round is
\* count * timeFactor of the count and the elapsed seconds of the request,
\* each cut to a whole number first; 4 correct in 30 s score 12, in 600 s 2.
C19_ScoreFromWholeNumbers ==
    [][\A w \in Workers, ev \in Inserted :
          \A c \in CountValues, t \in TotalValues, sec \in SecondsValues :
             RecordWordGame(w, ev.game_type, TRUE, ev.student_email, c, t, sec)
             => /\ ev.score = RatMul(Whole(Carried(c)), Factor(Whole(Carried(sec))))
                /\ (c = GNum(4, 1) /\ sec = GNum(30, 1)) => ev.score = Rat(12, 1)
                /\ (c = GNum(4, 1) /\ sec = GNum(600, 1)) => ev.score = Rat(2, 1)]_vars

\* a round of 4 words in 600 s scored 2 and a round of 40.5 s is recorded
C19_Witness ==
    /\ \E ev \in BagToSet(gameScores) :
          ev.count = 4 /\ ev.time_seconds = 600 /\ ev.score = Rat(2, 1)
    /\ \E ev \in BagToSet(gameScores) : ev.time_seconds = 40 /\ ev.count = 4

\* C20: once the student_email of an assignment is not empty, no step of a
\* submission changes it, whatever the interleaving of two submissions.
C20_BoundOnce ==
    [][\A a \in Ids :
          (assignments[a].student_email # "" /\ a \in DOMAIN assignments')
          => assignments'[a].student_email = assignments[a].student_email]_vars

\* the first submission to an unbound assignment binds it to its student
C20_FirstSubmissionBinds ==
    [][\A w \in Workers :
          (SubmitTextBind(w) /\ assignments[local[w].aid].student_email = "")
          => assignments'[local[w].aid].student_email = local[w].email]_vars

\* the user is neither the student the document is bound to nor its instructor
Outsider(email, doc) ==
    /\ doc.student_email # ""
    /\ doc.student_email # email
    /\ doc.instructor_email # email

\* C21: a submission of a user who is neither the bound student nor the
\* instructor of the assignment (and no admin) never changes the assignment.
C21_OutsiderChangesNothing ==
    [][\A w \in Workers :
          (/\ local[w].op = "submit_text"
           /\ pc'[w] # pc[w]
           /\ local[w].aid \in Ids
           /\ Outsider(local[w].email, assignments[local[w].aid]))
          => assignments' = assignments]_vars

\* C22: the rating of every stored assignment is unset or within [0, 5].
C22_RatingInRange ==
    \A a \in Ids :
        \/ IsNone(assignments[a].rating)
        \/ /\ RatLeq(Rat(0, 1), Val(assignments[a].rating))
           /\ RatLeq(Val(assignments[a].rating), Rat(5, 1))

\* C23: two completed assignments with the same score and the same points
\* have the same rating (no marks are set by hand in the scenario checked).
C23_RatingFromScoreAndPoints ==
    \A a, b \in Ids :
        (/\ assignments[a].status = "completed"
         /\ assignments[b].status = "completed"
         /\ assignments[a].score = assignments[b].score
         /\ assignments[a].points = assignments[b].points)
        => assignments[a].rating = assignments[b].rating

\* the completed assignments of a course whose rating is set
CompletedRated(course) ==
    {a \in Ids : /\ assignments[a].course = course
                 /\ assignments[a].status = "completed"
                 /\ ~IsNone(assignments[a].rating)}

\* C25: when a free-text submission has completed, the rating of the course
\* is the mean of the ratings of the completed assignments of the course
\* whose rating is set.
C25_CourseRatingIsMeanOfCompleted ==
    [][\A w \in Workers :
          (pc[w] = "text_course" /\ pc'[w] = "idle")
          => courseRating'[local[w].course]
               = Some(AvgRating(CompletedRated(local[w].course)))]_vars

\* when a free-text submission has completed, the rating of the course is the
\* mean of the ratings of all assignments of the course whose rating is set
C25_CourseRatingIsMeanOfRated ==
    [][\A w \in Workers :
          (pc[w] = "text_course" /\ pc'[w] = "idle")
          => courseRating'[local[w].course]
               = Some(AvgRating(RatedOfCourse(local[w].course)))]_vars

\* C24: once student_answer and completed_at of an assignment are set, no
\* step replaces either value.
C24_SetOnceFields ==
    [][\A a \in Ids :
          a \in DOMAIN assignments'
          => /\ ~IsNone(assignments[a].student_answer)
                  => assignments'[a].student_answer = assignments[a].student_answer
             /\ ~IsNone(assignments[a].completed_at)
                  => assignments'[a].completed_at = assignments[a].completed_at]_vars

\* the fields of a report captured when it was filed
SnapshotFields == {"type", "assignment_id", "question_index", "student_answer", "is_correct"}

\* C26: no step changes the snapshot fields of a stored report; resolving it
\* changes only its status and its resolution timestamp.
C26_SnapshotKept ==
    [][\A r \in ReportIds :
          /\ r \in DOMAIN reports'
          /\ \A f \in SnapshotFields : reports'[r][f] = reports[r][f]
          /\ DOMAIN reports'[r] = DOMAIN reports[r]]_vars

\* a resolved report still shows the answer as wrong while the credit grant
\* has marked the live result correct
C26_Witness ==
    \E r \in ReportIds :
        /\ reports[r].status = "resolved"
        /\ reports[r].is_correct = Some(FALSE)
        /\ reports[r].assignment_id \in Ids
        /\ LET res == assignments[reports[r].assignment_id].results
               k == Val(reports[r].question_index)
           IN  k < Len(res) /\ res[k + 1].is_correct

\* C27: when the reports on two different questions of a quiz are both
\* resolved, with no manual values and in any interleaving, both questions
\* are marked correct in the stored results and the stored score is the
\* number of correct results.
C27_BothGrantsKept ==
    \A r1, r2 \in ReportIds :
        (/\ r1 # r2
         /\ reports[r1].status = "resolved" /\ reports[r2].status = "resolved"
         /\ reports[r1].assignment_id = reports[r2].assignment_id
         /\ reports[r1].question_index # reports[r2].question_index
         /\ reports[r1].assignment_id \in Ids)
        => LET doc == assignments[reports[r1].assignment_id]
           IN  /\ doc.results[Val(reports[r1].question_index) + 1].is_correct
               /\ doc.results[Val(reports[r2].question_index) + 1].is_correct
               /\ doc.score = Some(CorrectCount(doc.results))

\* C28: a stored result carries the confirmation "Your answer is correct."
\* only if its is_correct is true.
C28_ConfirmationOnlyWhenCorrect ==
    \A a \in Ids :
        \A i \in 1..Len(assignments[a].results) :
            assignments[a].results[i].explanation = "confirmation"
            => assignments[a].results[i].is_correct

\* a stored result that was answered with an index >= 0 carries the
\* confirmation only if its is_correct is true
C28_ConfirmationOnlyWhenCorrectIfAnswered ==
    \A a \in Ids :
        \A i \in 1..Len(assignments[a].results) :
            LET r == assignments[a].results[i]
            IN  (r.explanation = "confirmation" /\ ~IsNone(r.user_answer) /\ Val(r.user_answer) >= 0)
                => r.is_correct

\* C29: a free-text submission that ends in an error response leaves the
\* stored assignment as the submission found it, student_email included.
C29_ErrorChangesNothing ==
    [][\A w \in Workers :
          (/\ local[w].op = "submit_text"
           /\ pc[w] = "text_grade" /\ pc'[w] = "idle"
           /\ resp'[w] \in {"grading_failed", "error"}
           /\ local[w].aid \in DOMAIN assignments')
          => assignments'[local[w].aid] = local[w].found]_vars

\* a free-text submission rejected before the document is read (no oracle,
\* no answer, no such assignment) changes no assignment
C29_RejectionChangesNothing ==
    [][\A w \in Workers :
          (pc[w] = "idle" /\ resp'[w] \in {"ollama_unavailable", "answer_required", "not_found"})
          => assignments' = assignments]_vars

\* the step of w applies the automatic credit grant
GrantStep(w) ==
    /\ pc[w] = "resolve_update" /\ pc'[w] = "resolve_mark"
    /\ DOMAIN Marks(local[w].score_raw, local[w].rating_raw) = {}
    /\ GrantApplies(local[w].report, local[w].doc)
    /\ local[w].aid \in DOMAIN assignments'

\* C30: after the automatic credit grant the stored score is at least the
\* number of correct results before it, and granting again for the same
\* report and question gives the results, score and rating just stored.
C30_GrantIdempotentAndMonotone ==
    [][\A w \in Workers :
          GrantStep(w)
          => LET post == assignments'[local[w].aid]
                 again == ResolveFields(local[w].report, post, FEmpty, FEmpty)
             IN  /\ Val(post.score) >= CorrectCount(local[w].doc.results)
                 /\ again.results = post.results
                 /\ again.score = post.score
                 /\ again.rating = post.rating]_vars

\* the grant has been applied to a report that was already resolved by a
\* grant: the reported result was correct when the assignment was read
C30_Witness ==
    \E w \in Workers :
        /\ pc[w] = "resolve_mark"
        /\ local[w].report.status = "resolved"
        /\ DOMAIN Marks(local[w].score_raw, local[w].rating_raw) = {}
        /\ GrantApplies(local[w].report, local[w].doc)
        /\ local[w].report.is_correct = Some(FALSE)
        /\ local[w].doc.results[Val(local[w].report.question_index) + 1].is_correct
        /\ local[w].aid \in Ids
        /\ assignments[local[w].aid].results = local[w].doc.results

====
